---- MODULE Spec2Model ----
(***************************************************************************)
(* Model of the WAV decoder of aften (src/aften/wav.c): the RIFF/WAVE      *)
(* header parser wavfile_init, the seek engine aft_seek_set, the read      *)
(* pipeline wavfile_read_samples and the position/seek facade.             *)
(*                                                                         *)
(* The input is a byte string (file) behind a stdio stream (fp: the real   *)
(* cursor and the end-of-file indicator).  The 64-bit and 32-bit C         *)
(* integers of the code are kept at their width: a wide value is its eight *)
(* bytes, least significant first (two's complement for int64_t), so that  *)
(* uint32_t/uint64_t wrap-around and the INT32_MAX tests of the seek       *)
(* engine are computed as the machine computes them.                       *)
(*                                                                         *)
(* Not modelled: null arguments of the public functions, a failing calloc, *)
(* and stdio errors other than end of file (ferror); fseek on a regular    *)
(* file succeeds for every non-negative destination, as on POSIX.  The     *)
(* sample values that the fmt_convert functions write to the output are    *)
(* not part of the state: a read is its count and its effect on the        *)
(* stream.                                                                 *)
(***************************************************************************)
EXTENDS Integers, Sequences, FiniteSets, TLC

VARIABLES
    file,       \* the bytes of the input, fixed once chosen
    transport,  \* "file": seekable, ftell works; "file_nosize": seekable,
                \* ftell fails; "pipe": not seekable
    fp,         \* the stdio stream: [cur: real offset (wide), eof: indicator]
    wf,         \* the WavFile structure
    pc,         \* "new", "chunks" (inside the chunk loop of wavfile_init),
                \* "ready" (wavfile_init returned 0), "failed" (it returned
                \* non-zero), "crashed" (it trapped on a division by zero)
    found_fmt,  \* local of wavfile_init
    chunks,     \* history: the chunk headers the loop has read, in order
    last,       \* history: the last call and what it returned
    read_sum,   \* history: the sum of the counts wavfile_read_samples has
                \* returned since wavfile_init, or -1 once a seek was called
    output,     \* the samples the last wavfile_read_samples call stored in
                \* the caller's buffer, <<>> when it stored none
    unfreed,    \* the blocks the last wavfile_read_samples call allocated
                \* and had not freed when it returned
    conv        \* a sample under conversion: [fmt, x] now, [fmt0, x0] at
                \* the start, [via] the format it went through, [n] steps

vars == <<file, transport, fp, wf, pc, found_fmt, chunks, last, read_sum,
          output, unfreed, conv>>

----------------------------------------------------------------------------
(* Machine integers.                                                       *)

RECURSIVE bytes_of(_, _)
\* the k low bytes of the natural number n, least significant first
bytes_of(n, k) == IF k = 0 THEN <<>> ELSE <<n % 256>> \o bytes_of(n \div 256, k - 1)

\* a + b + c modulo 2^64, byte by byte with the carry
add_c(a, b, c) ==
    LET s1 == a[1] + b[1] + c
        s2 == a[2] + b[2] + s1 \div 256
        s3 == a[3] + b[3] + s2 \div 256
        s4 == a[4] + b[4] + s3 \div 256
        s5 == a[5] + b[5] + s4 \div 256
        s6 == a[6] + b[6] + s5 \div 256
        s7 == a[7] + b[7] + s6 \div 256
        s8 == a[8] + b[8] + s7 \div 256
    IN  <<s1 % 256, s2 % 256, s3 % 256, s4 % 256,
          s5 % 256, s6 % 256, s7 % 256, s8 % 256>>

\* a * m modulo 2^64, for 0 <= m < 2^23
mul_c(a, m) ==
    LET p1 == a[1] * m
        p2 == a[2] * m + p1 \div 256
        p3 == a[3] * m + p2 \div 256
        p4 == a[4] * m + p3 \div 256
        p5 == a[5] * m + p4 \div 256
        p6 == a[6] * m + p5 \div 256
        p7 == a[7] * m + p6 \div 256
        p8 == a[8] * m + p7 \div 256
    IN  <<p1 % 256, p2 % 256, p3 % 256, p4 % 256,
          p5 % 256, p6 % 256, p7 % 256, p8 % 256>>

\* long division of a by 0 < d < 2^23, from the most significant byte
div_c(a, d) ==
    LET t8 == a[8]
        t7 == (t8 % d) * 256 + a[7]
        t6 == (t7 % d) * 256 + a[6]
        t5 == (t6 % d) * 256 + a[5]
        t4 == (t5 % d) * 256 + a[4]
        t3 == (t4 % d) * 256 + a[3]
        t2 == (t3 % d) * 256 + a[2]
        t1 == (t2 % d) * 256 + a[1]
    IN  <<t1 \div d, t2 \div d, t3 \div d, t4 \div d,
          t5 \div d, t6 \div d, t7 \div d, t8 \div d>>

\* unsigned a < b, comparing the bytes in three groups from the top
lt_c(a, b) ==
    LET a3 == a[7] + 256 * a[8]
        b3 == b[7] + 256 * b[8]
        a2 == a[4] + 256 * a[5] + 65536 * a[6]
        b2 == b[4] + 256 * b[5] + 65536 * b[6]
        a1 == a[1] + 256 * a[2] + 65536 * a[3]
        b1 == b[1] + 256 * b[2] + 65536 * b[3]
    IN  \/ a3 < b3
        \/ a3 = b3 /\ (a2 < b2 \/ (a2 = b2 /\ a1 < b1))

\* uint64_t from a natural number below 2^31
u64(n) == bytes_of(n, 8)
not64(a) == <<255 - a[1], 255 - a[2], 255 - a[3], 255 - a[4],
             255 - a[5], 255 - a[6], 255 - a[7], 255 - a[8]>>
add64(a, b) == add_c(a, b, 0)
neg64(a) == add_c(not64(a), u64(1), 0)
sub64(a, b) == add64(a, neg64(b))
\* int64_t from an integer of magnitude below 2^31
i64(n) == IF n >= 0 THEN u64(n) ELSE neg64(u64(-n))
lt64(a, b) == lt_c(a, b)
le64(a, b) == ~lt_c(b, a)
isneg64(a) == a[8] >= 128
\* signed comparison of two int64_t
slt64(a, b) == IF isneg64(a) # isneg64(b) THEN isneg64(a) ELSE lt_c(a, b)
sle64(a, b) == ~slt64(b, a)
\* multiplication of a uint64_t by 0 <= m < 2^23, modulo 2^64
mul64(a, m) == mul_c(a, m)
\* unsigned division of a uint64_t by 0 < d < 2^23
div64(a, d) == div_c(a, d)
\* (uint32_t)a
u32(a) == <<a[1], a[2], a[3], a[4], 0, 0, 0, 0>>
\* the value of a wide number known to be below 2^31
val(a) == a[1] + 256 * a[2] + 65536 * a[3] + 16777216 * a[4]
\* (int)a for a 32-bit pattern a
int32(a) == IF a[4] < 128 THEN val(a)
            ELSE -val(<<255 - a[1], 255 - a[2], 255 - a[3], 255 - a[4]>>) - 1
\* int64_t multiplication by 0 <= m < 2^23 (sign and magnitude; the inputs
\* of the model stay far from overflow, which is undefined in C)
smul64(a, m) == IF isneg64(a) THEN neg64(mul64(neg64(a), m)) ELSE mul64(a, m)
\* int64_t division by d > 0, truncating toward zero as C does
sdiv64(a, d) == IF isneg64(a) THEN neg64(div64(neg64(a), d)) ELSE div64(a, d)

MIN64(a, b) == IF lt64(a, b) THEN a ELSE b
SMIN64(a, b) == IF slt64(a, b) THEN a ELSE b
SMAX64(a, b) == IF slt64(b, a) THEN a ELSE b
CLIP64(x, lo, hi) == SMAX64(SMIN64(x, hi), lo)
MAX(a, b) == IF a > b THEN a ELSE b
MIN(a, b) == IF a < b THEN a ELSE b

INT32_MAX == 2147483647
INT32_MAX64 == u64(INT32_MAX)
INT32_MIN64 == neg64(add64(INT32_MAX64, u64(1)))

----------------------------------------------------------------------------
(* Program constants.                                                      *)

RIFF_ID == 1179011410
WAVE_ID == 1163280727
FMT__ID == 544501094
DATA_ID == 1635017060

WAVE_FORMAT_PCM == 1
WAVE_FORMAT_IEEEFLOAT == 3
WAVE_FORMAT_EXTENSIBLE == 65534

\* the largest number of frames one wavfile_read_samples call returns; wav.h
\* defines it, and the model takes a small value in its place
WAV_MAX_READ == 3

WAV_SEEK_SET == 0
WAV_SEEK_CUR == 1
WAV_SEEK_END == 2

SampleFormats == {"U8", "S16", "S20", "S24", "S32", "FLT", "DBL"}

----------------------------------------------------------------------------
(* The stdio stream.                                                       *)

\* bytes between the cursor and the end of the input
avail(f) == IF lt64(f.cur, u64(Len(file))) THEN Len(file) - val(f.cur) ELSE 0

\* fread of one item of k bytes followed by the feof test of read4le/read2le:
\* the item's bytes, or zero when the read met the end of the input
fread_le(f, k) ==
    IF f.eof THEN [v |-> u64(0), fp |-> f]
    ELSE IF avail(f) >= k
    THEN [v  |-> SubSeq(file, val(f.cur) + 1, val(f.cur) + k) \o bytes_of(0, 8 - k),
          fp |-> [f EXCEPT !.cur = add64(@, u64(k))]]
    ELSE [v |-> u64(0), fp |-> [cur |-> add64(f.cur, u64(avail(f))), eof |-> TRUE]]

read4le(f) == fread_le(f, 4)
read2le(f) == fread_le(f, 2)

RECURSIVE read_fields(_, _)
\* successive read2le and read4le calls, one per entry of sizes: the result
\* of each, in order
read_fields(f, sizes) ==
    IF sizes = <<>> THEN <<>>
    ELSE LET r == IF Head(sizes) = 2 THEN read2le(f) ELSE read4le(f)
         IN  <<r>> \o read_fields(r.fp, Tail(sizes))

\* fseek(fp, dest, SEEK_SET) with 0 <= dest: succeeds, clears the indicator
fseek_set(f, dest) == [cur |-> dest, eof |-> FALSE]

\* reading and discarding n (wide) bytes, as the forward-only loop of
\* aft_seek_set does with fread and fgetc: the cursor stops at the end of the
\* input, and the indicator is set when the loop asked for more than remains
discard(f, n) ==
    IF f.eof THEN f
    ELSE IF le64(n, u64(avail(f)))
    THEN [f EXCEPT !.cur = add64(@, n)]
    ELSE [cur |-> add64(f.cur, u64(avail(f))), eof |-> TRUE]

\* fread(buffer, size, nmemb, fp): the number of whole items read and the
\* stream afterwards (a trailing partial item is consumed too)
fread_items(f, size, nmemb) ==
    IF f.eof THEN [nr |-> 0, fp |-> f]
    ELSE IF avail(f) \div size >= nmemb
    THEN [nr |-> nmemb, fp |-> [f EXCEPT !.cur = add64(@, u64(size * nmemb))]]
    ELSE [nr |-> avail(f) \div size,
          fp |-> [cur |-> add64(f.cur, u64(avail(f))), eof |-> TRUE]]

----------------------------------------------------------------------------
(* The seek engine.                                                        *)

\* aft_seek_set with the tracked position set before the outcome is known:
\* a variant the property of C11 must tell from the code
aft_seek_set_tracks_first(w, f, dest) ==
    LET w1 == [w EXCEPT !.filepos = dest]
        fail == [rc |-> -1, wf |-> w1, fp |-> f]
        done(g) == [rc |-> 0, wf |-> w1, fp |-> g]
        slow == IF lt64(dest, w.filepos) THEN fail
                ELSE done(discard(f, sub64(dest, w.filepos)))
        offset == sub64(dest, w.filepos)
    IN  IF w.seekable
        THEN IF le64(dest, INT32_MAX64)
             THEN done(fseek_set(f, dest))
             ELSE IF sle64(INT32_MIN64, offset) /\ sle64(offset, INT32_MAX64)
                  THEN IF isneg64(add64(f.cur, offset)) THEN fail
                       ELSE done([cur |-> add64(f.cur, offset), eof |-> FALSE])
                  ELSE IF isneg64(offset) THEN fail ELSE slow
        ELSE slow

\* aft_seek_set(wf, dest): [rc, wf, fp]
\* aft_seek_set with a direct absolute seek to every destination of a
\* seekable stream: a variant the property of C19 must tell from the code
aft_seek_set_absolute_only(w, f, dest) ==
    IF w.seekable
    THEN [rc |-> 0, wf |-> [w EXCEPT !.filepos = dest], fp |-> fseek_set(f, dest)]
    ELSE IF lt64(dest, w.filepos) THEN [rc |-> -1, wf |-> w, fp |-> f]
    ELSE [rc |-> 0, wf |-> [w EXCEPT !.filepos = dest],
          fp |-> discard(f, sub64(dest, w.filepos))]

aft_seek_set(w, f, dest) ==
    LET fail == [rc |-> -1, wf |-> w, fp |-> f]
        done(g) == [rc |-> 0, wf |-> [w EXCEPT !.filepos = dest], fp |-> g]
        slow == IF lt64(dest, w.filepos) THEN fail
                ELSE done(discard(f, sub64(dest, w.filepos)))
        offset == sub64(dest, w.filepos)
    IN  IF w.seekable
        THEN IF le64(dest, INT32_MAX64)
             THEN done(fseek_set(f, dest))
             ELSE IF sle64(INT32_MIN64, offset) /\ sle64(offset, INT32_MAX64)
                  THEN \* fseek(fp, offset, SEEK_CUR) fails on a negative result
                       IF isneg64(add64(f.cur, offset)) THEN fail
                       ELSE done([cur |-> add64(f.cur, offset), eof |-> FALSE])
                  ELSE IF isneg64(offset) THEN fail ELSE slow
        ELSE slow

----------------------------------------------------------------------------
(* wavfile_init.                                                           *)

\* the structure after memset(wf, 0, sizeof(WavFile)); "ZERO" is the sample
\* format whose enumeration value is 0
wf_zero ==
    [filepos |-> u64(0), seekable |-> FALSE, read_format |-> "ZERO",
     source_format |-> "ZERO", file_size |-> u64(0), data_start |-> u64(0),
     data_size |-> u64(0), samples |-> u64(0), format |-> 0, channels |-> 0,
     ch_mask |-> u64(0), sample_rate |-> u64(0), bytes_per_sec |-> u64(0),
     block_align |-> 0, bit_width |-> 0]

\* no conversion under way
no_conv == [fmt |-> "none", x |-> 0, fmt0 |-> "none", x0 |-> 0, via |-> "none", n |-> 0]

no_call == [op |-> "none", arg |-> 0, whence |-> 0, ret |-> 0, pos |-> u64(0)]
called(op, arg, whence, ret) ==
    [op |-> op, arg |-> arg, whence |-> whence, ret |-> ret, pos |-> u64(0)]

\* the default channel mask of a channel count
default_ch_mask(channels) ==
    CASE channels = 1 -> 4
      [] channels = 2 -> 3
      [] channels = 3 -> 7
      [] channels = 4 -> 263
      [] channels = 5 -> 55
      [] channels = 6 -> 63
      [] OTHER -> 0

\* the source format of a format tag and a bit width
source_format_of(format, bit_width) ==
    IF format = WAVE_FORMAT_PCM \/ format = WAVE_FORMAT_IEEEFLOAT
    THEN CASE bit_width = 8 -> "U8"
           [] bit_width = 16 -> "S16"
           [] bit_width = 20 -> "S20"
           [] bit_width = 24 -> "S24"
           [] bit_width = 32 ->
                IF format = WAVE_FORMAT_IEEEFLOAT THEN "FLT" ELSE "S32"
           [] bit_width = 64 ->
                IF format = WAVE_FORMAT_IEEEFLOAT THEN "DBL" ELSE "UNKNOWN"
           [] OTHER -> "UNKNOWN"
    ELSE "UNKNOWN"

\* the end of wavfile_init, after the chunk loop
resolve_formats(w) ==
    LET w1 == [w EXCEPT !.source_format = "UNKNOWN"]
        w2 == [w1 EXCEPT !.read_format = w1.source_format]
    IN  [w2 EXCEPT !.source_format = source_format_of(w.format, w.bit_width)]

\* the end of the case FMT__ID, for the structure w as read from the chunk
\* and `left` bytes of it unread: block align, byte rate, default channel
\* mask, and the leftover bytes skipped
fmt_finish(w, f, left) ==
    LET align == IF w.format = WAVE_FORMAT_PCM \/ w.format = WAVE_FORMAT_IEEEFLOAT
                 THEN MAX(1, ((w.bit_width + 7) \div 8) * w.channels)
                 ELSE w.block_align
        w1 == [w EXCEPT !.block_align = align,
                        !.bytes_per_sec = u32(mul64(w.sample_rate, align)),
                        !.ch_mask = IF @ = u64(0)
                                    THEN u64(default_ch_mask(w.channels))
                                    ELSE @]
    IN  aft_seek_set(w1, f, add64(w.filepos, left))

\* fmt_extension without the reset of the channel mask of a chunk that has
\* no extension: a variant the property of C8 must tell from the code
fmt_extension_keeps_mask(w, f, x, size16) ==
    IF w.format = WAVE_FORMAT_EXTENSIBLE /\ le64(u64(10), size16)
    THEN fmt_finish([w EXCEPT !.ch_mask = x[2].v, !.format = val(x[3].v),
                              !.filepos = add64(@, u64(10))],
                    x[3].fp, sub64(size16, u64(10)))
    ELSE fmt_finish(w, f, size16)

\* fmt_extension without the 10 bytes of the extension taken off the bytes
\* left to skip: a variant the property of C9 must tell from the code
fmt_extension_skips_all(w, f, x, size16) ==
    IF w.format = WAVE_FORMAT_EXTENSIBLE /\ le64(u64(10), size16)
    THEN fmt_finish([w EXCEPT !.ch_mask = x[2].v, !.format = val(x[3].v),
                              !.filepos = add64(@, u64(10))],
                    x[3].fp, size16)
    ELSE fmt_finish([w EXCEPT !.ch_mask = u64(0)], f, size16)

\* the WAVE_FORMAT_EXTENSIBLE data of the fmt chunk; x is the three reads
\* (CbSize and ValidBitsPerSample, channel mask, format) made when the
\* format is extensible and at least 10 bytes follow the 16
fmt_extension(w, f, x, size16) ==
    IF w.format = WAVE_FORMAT_EXTENSIBLE /\ le64(u64(10), size16)
    THEN fmt_finish([w EXCEPT !.ch_mask = x[2].v, !.format = val(x[3].v),
                              !.filepos = add64(@, u64(10))],
                    x[3].fp, sub64(size16, u64(10)))
    ELSE fmt_finish([w EXCEPT !.ch_mask = u64(0)], f, size16)

\* the six reads of the 16 bytes of a fmt chunk (r), each followed by its
\* validation
fmt_fields_read(w, r, chunksize) ==
    LET w1 == [w EXCEPT !.format = val(r[1].v), !.channels = val(r[2].v),
                        !.filepos = add64(@, u64(4))]
        w2 == [w1 EXCEPT !.sample_rate = r[3].v, !.filepos = add64(@, u64(4))]
        w3 == [w2 EXCEPT !.block_align = val(r[5].v), !.bit_width = val(r[6].v),
                         !.filepos = add64(@, u64(8))]
    IN  IF r[2].v = u64(0) THEN [rc |-> -1, wf |-> w1, fp |-> r[2].fp]
        ELSE IF r[3].v = u64(0) THEN [rc |-> -1, wf |-> w2, fp |-> r[3].fp]
        ELSE IF r[6].v = u64(0) THEN [rc |-> -1, wf |-> w3, fp |-> r[6].fp]
        ELSE fmt_extension(w3, r[6].fp, read_fields(r[6].fp, <<4, 4, 2>>),
                           sub64(chunksize, u64(16)))

\* the case FMT__ID of the chunk loop: [rc, wf, fp]
fmt_chunk(w, f, chunksize) ==
    IF lt64(chunksize, u64(16)) THEN [rc |-> -1, wf |-> w, fp |-> f]
    ELSE fmt_fields_read(w, read_fields(f, <<2, 2, 4, 4, 2, 2>>), chunksize)

\* wavfile_init up to the chunk loop: seekability, file size, RIFF and WAVE
wavfile_init_open ==
    /\ pc = "new"
    /\ LET seekable == transport # "pipe"
           fsize == IF transport = "file" THEN u64(Len(file)) ELSE u64(0)
           w0 == [wf_zero EXCEPT !.seekable = seekable, !.file_size = fsize]
           f0 == [cur |-> u64(0), eof |-> FALSE]
           \* RIFF id, size (ignored), WAVE id
           r == read_fields(f0, <<4, 4, 4>>)
       IN  IF r[1].v # u64(RIFF_ID)
           THEN /\ wf' = [w0 EXCEPT !.filepos = u64(4)]
                /\ fp' = r[1].fp
                /\ pc' = "failed"
                /\ last' = called("init", 0, 0, -1)
           ELSE IF r[3].v # u64(WAVE_ID)
           THEN /\ wf' = [w0 EXCEPT !.filepos = u64(12)]
                /\ fp' = r[3].fp
                /\ pc' = "failed"
                /\ last' = called("init", 0, 0, -1)
           ELSE /\ wf' = [w0 EXCEPT !.filepos = u64(12)]
                /\ fp' = r[3].fp
                /\ pc' = "chunks"
                /\ last' = called("init", 0, 0, 0)
    /\ found_fmt' = FALSE
    /\ UNCHANGED <<file, transport, chunks, read_sum, output, unfreed, conv>>

\* chunk_header without the advance of the tracked position: a variant the
\* property of C18 must tell from the code
chunk_header_untracked ==
    LET r == read_fields(fp, <<4, 4>>)
    IN  [id |-> r[1].v, size |-> r[2].v, fp |-> r[2].fp, filepos |-> wf.filepos]

\* the id and the size at the top of one iteration of the chunk loop
chunk_header ==
    LET r == read_fields(fp, <<4, 4>>)
    IN  [id |-> r[1].v, size |-> r[2].v, fp |-> r[2].fp,
         filepos |-> add64(wf.filepos, u64(8))]

\* chunk_valid without the test of the size: a variant the property of C7
\* must tell from the code
chunk_valid_id_only(h) == h.id # u64(0)

chunk_valid(h) == h.id # u64(0) /\ h.size # u64(0)

chunk_seen(h, kind) ==
    Append(chunks, [off |-> wf.filepos, real |-> fp.cur, eof |-> fp.eof,
                    id |-> h.id, size |-> h.size, kind |-> kind])

\* an iteration that reads a zero id or a zero size
chunk_invalid ==
    /\ pc = "chunks"
    /\ LET h == chunk_header
       IN  /\ ~chunk_valid(h)
           /\ wf' = [wf EXCEPT !.filepos = h.filepos]
           /\ fp' = h.fp
           /\ chunks' = chunk_seen(h, "invalid")
    /\ pc' = "failed"
    /\ last' = called("init", 0, 0, -1)
    /\ UNCHANGED <<file, transport, found_fmt, read_sum, output, unfreed, conv>>

\* an iteration that reads a fmt chunk
chunk_fmt ==
    /\ pc = "chunks"
    /\ LET h == chunk_header
           r == fmt_chunk([wf EXCEPT !.filepos = h.filepos], h.fp, h.size)
       IN  /\ chunk_valid(h)
           /\ h.id = u64(FMT__ID)
           /\ wf' = r.wf
           /\ fp' = r.fp
           /\ chunks' = chunk_seen(h, "fmt")
           /\ IF r.rc = 0
              THEN /\ pc' = "chunks"
                   /\ found_fmt' = TRUE
                   /\ last' = called("init", 0, 0, 0)
              ELSE /\ pc' = "failed"
                   /\ found_fmt' = found_fmt
                   /\ last' = called("init", 0, 0, -1)
    /\ UNCHANGED <<file, transport, read_sum, output, unfreed, conv>>

\* what the unsigned division data_size / block_align leaves in samples when
\* block_align is 0 and the division does not trap (undefined in C)
UndefinedQuotients == {u64(0), u64(1)}

\* data_chunk with data_start taken at the chunk's id, before its 8-byte
\* header: a variant the property of C1 must tell from the code
data_chunk_at_header(w, chunksize) ==
    LET w1 == [w EXCEPT !.data_size = chunksize,
                        !.data_start = sub64(w.filepos, u64(8))]
    IN  IF w1.seekable /\ lt64(u64(0), w1.file_size)
        THEN [w1 EXCEPT !.data_size =
                    MIN64(w1.data_size, sub64(w1.file_size, w1.data_start))]
        ELSE w1

\* the case DATA_ID: data_start, data_size (limited to the end of the file)
data_chunk(w, chunksize) ==
    LET w1 == [w EXCEPT !.data_size = chunksize, !.data_start = w.filepos]
    IN  IF w1.seekable /\ lt64(u64(0), w1.file_size)
        THEN [w1 EXCEPT !.data_size =
                    MIN64(w1.data_size, sub64(w1.file_size, w1.data_start))]
        ELSE w1

\* an iteration that reads the data chunk, which ends the loop, and the rest
\* of wavfile_init after the loop
chunk_data ==
    /\ pc = "chunks"
    /\ LET h == chunk_header
           w1 == data_chunk([wf EXCEPT !.filepos = h.filepos], h.size)
       IN  /\ chunk_valid(h)
           /\ h.id = u64(DATA_ID)
           /\ fp' = h.fp
           /\ chunks' = chunk_seen(h, "data")
           /\ IF ~found_fmt
              THEN /\ wf' = [wf EXCEPT !.filepos = h.filepos]
                   /\ pc' = "failed"
                   /\ last' = called("init", 0, 0, -1)
              ELSE IF w1.block_align = 0
              THEN \/ /\ wf' = w1
                      /\ pc' = "crashed"
                      /\ last' = called("init", 0, 0, 0)
                   \/ \E q \in UndefinedQuotients :
                        /\ wf' = resolve_formats([w1 EXCEPT !.samples = q])
                        /\ pc' = "ready"
                        /\ last' = called("init", 0, 0, 0)
              ELSE /\ wf' = resolve_formats(
                              [w1 EXCEPT !.samples = div64(w1.data_size, w1.block_align)])
                   /\ pc' = "ready"
                   /\ last' = called("init", 0, 0, 0)
    /\ UNCHANGED <<file, transport, found_fmt, read_sum, output, unfreed, conv>>

\* an iteration that reads any other chunk and skips it
chunk_skip ==
    /\ pc = "chunks"
    /\ LET h == chunk_header
           w1 == [wf EXCEPT !.filepos = h.filepos]
           r == aft_seek_set(w1, h.fp, add64(w1.filepos, h.size))
       IN  /\ chunk_valid(h)
           /\ h.id # u64(FMT__ID)
           /\ h.id # u64(DATA_ID)
           /\ wf' = r.wf
           /\ fp' = r.fp
           /\ chunks' = chunk_seen(h, "other")
           /\ IF r.rc = 0
              THEN /\ pc' = "chunks"
                   /\ last' = called("init", 0, 0, 0)
              ELSE /\ pc' = "failed"
                   /\ last' = called("init", 0, 0, -1)
    /\ UNCHANGED <<file, transport, found_fmt, read_sum, output, unfreed, conv>>

----------------------------------------------------------------------------
(* Sample format conversion, one sample at a time.  A sample of an integer *)
(* format is an integer; a sample of FLT or DBL is a record [m, e]         *)
(* standing for the real number m / 2^e, so that every division and        *)
(* multiplication by a full-scale magnitude is exact, as it is in binary   *)
(* floating point.  Not-a-number and the infinities are not represented.   *)
(* Each conversion yields the SET of results a build can produce: one     *)
(* value, except where the C code has undefined behaviour.                 *)

real(m, e) == [m |-> m, e |-> e]

\* bits of the integer part of each integer format
width_of(fmt) ==
    CASE fmt = "U8" -> 8 [] fmt = "S16" -> 16 [] fmt = "S20" -> 20
      [] fmt = "S24" -> 24 [] fmt = "S32" -> 32

\* the store of an int into a uint8_t and into an int16_t
wrap8(v) == v % 256
wrap16(v) == ((v + 32768) % 65536) - 32768

\* v >> k of a signed int (arithmetic shift)
asr(v, k) == v \div (2^k)

\* v << k of a signed int, k in 0..24, reduced to 32 bits as the machine
\* instruction does when the mathematical result does not fit
shl32(v, k) ==
    LET u == v % (2^(32 - k))
    IN  IF u >= 2^(31 - k) THEN (u - 2^(31 - k) - 2^(31 - k)) * 2^k ELSE u * 2^k

\* the signed value an integer sample stands for before scaling: U8 is
\* offset by 128
unbias(src, fmt) == IF fmt = "U8" THEN src - 128 ELSE src

\* rescale without the offset of U8: a variant the property of C16 must
\* tell from the code
rescale_keeps_bias(src, fmt, to_w) ==
    IF to_w >= width_of(fmt) THEN shl32(src, to_w - width_of(fmt))
    ELSE asr(src, width_of(fmt) - to_w)

\* the shift between two integer widths: left when widening, right when
\* narrowing
rescale(src, fmt, to_w) ==
    IF to_w >= width_of(fmt) THEN shl32(unbias(src, fmt), to_w - width_of(fmt))
    ELSE asr(unbias(src, fmt), width_of(fmt) - to_w)

\* does the real v * 2^k, truncated, fit a 32-bit int
fits(v, k) ==
    LET s == k - v.e
    IN  IF s <= 0 THEN TRUE
        ELSE IF s > 31 THEN v.m = 0
        ELSE IF s = 31 THEN v.m \in {-1, 0}
        ELSE v.m >= -(2^(31 - s)) /\ v.m <= 2^(31 - s) - 1

\* floor(v * 2^k), for v with fits(v, k)
floor_scaled(v, k) ==
    LET s == k - v.e
    IN  IF s = 31 THEN (IF v.m = 0 THEN 0 ELSE -2147483647 - 1)
        ELSE IF s >= 0 THEN (IF v.m = 0 THEN 0 ELSE v.m * 2^s)
        ELSE IF -s > 30 THEN (IF v.m < 0 THEN -1 ELSE 0)
        ELSE v.m \div (2^(-s))

\* is v * 2^k a whole number
whole_scaled(v, k) ==
    LET s == k - v.e
    IN  s >= 0 \/ v.m = 0 \/ (-s <= 30 /\ v.m % (2^(-s)) = 0)

\* (int)(v * 2^k): truncation toward zero, for v with fits(v, k)
trunc_scaled(v, k) ==
    IF floor_scaled(v, k) < 0 /\ ~whole_scaled(v, k)
    THEN floor_scaled(v, k) + 1 ELSE floor_scaled(v, k)

\* clip_cast without the clip: a variant the property of C17 must tell
\* from the code
clip_cast_unclipped(v, k, lo, hi) ==
    IF ~fits(v, k) THEN (IF v.m > 0 THEN 2147483647 ELSE -2147483647 - 1)
    ELSE trunc_scaled(v, k)

\* (int)CLIP(v * 2^k, lo, hi) with lo <= 0 <= hi whole: the real is clipped
\* first, then truncated
clip_cast(v, k, lo, hi) ==
    IF ~fits(v, k) THEN (IF v.m > 0 THEN hi ELSE lo)
    ELSE IF floor_scaled(v, k) >= hi THEN hi
    ELSE IF floor_scaled(v, k) < lo THEN lo
    ELSE trunc_scaled(v, k)

\* floor(y * 2^23 / 2^23) for the float nearest to the real (Y + d) / 2^23,
\* 0 < Y < 2^31, 0 <= d < 1 and sticky telling d # 0: the rounding of a
\* float sum to 24 significant bits, ties to even
round_sum(Y, sticky) ==
    LET j == IF Y < 2^24 THEN 0
             ELSE CHOOSE i \in 1..7 : Y >= 2^(23 + i) /\ (i = 7 \/ Y < 2^(24 + i))
        q == Y \div (2^j)
        r == Y % (2^j)
        up == 2 * r > 2^j \/ (2 * r = 2^j /\ (sticky \/ q % 2 = 1))
    IN  IF j = 0 THEN Y \div (2^23)
        ELSE (IF up THEN q + 1 ELSE q) \div (2^(23 - j))

\* (int)CLIP((v * 128) + 128, 0, 255): the sum is above 255 for v >= 1 and
\* below 0 for v <= -1; between them it is rounded as a float is when the
\* source is FLT and exact when it is DBL
clip_cast_u8(v, fmt) ==
    IF ~fits(v, 0) THEN (IF v.m > 0 THEN 255 ELSE 0)
    ELSE IF floor_scaled(v, 0) >= 1 THEN 255
    ELSE IF floor_scaled(v, 0) < -1 \/ (floor_scaled(v, 0) = -1 /\ whole_scaled(v, 0)) THEN 0
    ELSE IF fmt = "FLT"
    THEN MIN(255, round_sum(floor_scaled(v, 30) + 2^30, ~whole_scaled(v, 30)))
    ELSE (floor_scaled(v, 30) + 2^30) \div (2^23)

\* the results of (int)x for a real x outside the range of int, which C
\* leaves undefined: the smallest int (x86) or the nearest one (ARM)
UndefinedCasts(v) == {-2147483647 - 1, IF v.m > 0 THEN 2147483647 ELSE -2147483647 - 1}

\* (int)(v * 2147483648LL), not clipped
cast_s32(v) == IF fits(v, 31) THEN {trunc_scaled(v, 31)} ELSE UndefinedCasts(v)

\* the nearest value with 24 significant bits, ties to even: the rounding
\* of a conversion to float
round24(v) ==
    LET a == IF v.m < 0 THEN -v.m ELSE v.m
        j == IF a < 2^24 THEN 0
             ELSE CHOOSE i \in 1..7 : a >= 2^(23 + i) /\ (i = 7 \/ a < 2^(24 + i))
        q == v.m \div (2^j)
        r == v.m % (2^j)
    IN  IF v.m = -2147483647 - 1 THEN v
        ELSE IF j = 0 THEN v
        ELSE IF 2 * r > 2^j \/ (2 * r = 2^j /\ q % 2 = 1) THEN real(q + 1, v.e - j)
        ELSE real(q, v.e - j)

\* the value of a float stored in the four bytes b, least significant
\* first; not defined for the exponent of infinity and not-a-number
float_of(b) ==
    LET E == (b[4] % 128) * 2 + b[3] \div 128
        M == (b[3] % 128) * 65536 + b[2] * 256 + b[1]
        sign == IF b[4] >= 128 THEN -1 ELSE 1
    IN  IF E = 0 THEN real(sign * M, 149)
        ELSE real(sign * (2^23 + M), 150 - E)

\* the value of a double stored in the eight bytes b, to the 24 leading
\* bits of its significand (the model's inputs have no others)
double_of(b) ==
    LET E == (b[8] % 128) * 16 + b[7] \div 16
        M == (b[7] % 16) * 2^19 + b[6] * 2^11 + b[5] * 8 + b[4] \div 32
        sign == IF b[8] >= 128 THEN -1 ELSE 1
    IN  IF E = 0 THEN real(sign * M, 1045)
        ELSE real(sign * (2^23 + M), 1046 - E)

fmt_convert_to_u8(src, fmt) ==
    IF fmt = "U8" THEN {src}
    ELSE IF fmt \in {"FLT", "DBL"} THEN {wrap8(clip_cast_u8(src, fmt))}
    ELSE {wrap8(rescale(src, fmt, 8) + 128)}

fmt_convert_to_s16(src, fmt) ==
    IF fmt = "S16" THEN {src}
    ELSE IF fmt \in {"FLT", "DBL"} THEN {wrap16(clip_cast(src, 15, -32768, 32767))}
    ELSE {wrap16(rescale(src, fmt, 16))}

fmt_convert_to_s20(src, fmt) ==
    IF fmt = "S20" THEN {src}
    ELSE IF fmt \in {"FLT", "DBL"} THEN {clip_cast(src, 19, -524288, 524287)}
    ELSE {rescale(src, fmt, 20)}

fmt_convert_to_s24(src, fmt) ==
    IF fmt = "S24" THEN {src}
    ELSE IF fmt \in {"FLT", "DBL"} THEN {clip_cast(src, 23, -8388608, 8388607)}
    ELSE {rescale(src, fmt, 24)}

fmt_convert_to_s32(src, fmt) ==
    IF fmt = "S32" THEN {src}
    ELSE IF fmt \in {"FLT", "DBL"} THEN cast_s32(src)
    ELSE {rescale(src, fmt, 32)}

fmt_convert_to_float(src, fmt) ==
    IF fmt = "FLT" THEN {src}
    ELSE IF fmt = "DBL" THEN {round24(src)}
    ELSE LET r == round24(real(unbias(src, fmt), 0))
         IN  {real(r.m, r.e + width_of(fmt) - 1)}

fmt_convert_to_double(src, fmt) ==
    IF fmt \in {"FLT", "DBL"} THEN {src}
    ELSE {real(unbias(src, fmt), width_of(fmt) - 1)}

\* fmt_convert(dest_fmt, dest, src_fmt, src, 1): the samples it can store,
\* none for a destination format it does not know
fmt_convert(dest_fmt, src_fmt, src) ==
    CASE dest_fmt = "U8" -> fmt_convert_to_u8(src, src_fmt)
      [] dest_fmt = "S16" -> fmt_convert_to_s16(src, src_fmt)
      [] dest_fmt = "S20" -> fmt_convert_to_s20(src, src_fmt)
      [] dest_fmt = "S24" -> fmt_convert_to_s24(src, src_fmt)
      [] dest_fmt = "S32" -> fmt_convert_to_s32(src, src_fmt)
      [] dest_fmt = "FLT" -> fmt_convert_to_float(src, src_fmt)
      [] dest_fmt = "DBL" -> fmt_convert_to_double(src, src_fmt)
      [] OTHER -> {}

----------------------------------------------------------------------------
(* The read pipeline.                                                      *)

\* the dispatch on bytes per sample at the end of wavfile_read_samples: -1
\* when the source format does not fit, else the number of frames read
read_result(w, nr) ==
    LET nsmp == nr * w.channels
        bps == w.block_align \div w.channels
    IN  IF bps = 1 THEN (IF w.source_format # "U8" THEN -1 ELSE nr)
        ELSE IF bps = 2 THEN (IF w.source_format # "S16" THEN -1 ELSE nr)
        ELSE IF bps = 3
        THEN IF nsmp > 0 /\ w.bit_width # 20 /\ w.bit_width # 24 THEN -1
             ELSE IF w.source_format # "S20" /\ w.source_format # "S24" THEN -1
             ELSE nr
        ELSE IF bps = 4
        THEN IF w.format = WAVE_FORMAT_IEEEFLOAT
             THEN (IF w.source_format # "FLT" THEN -1 ELSE nr)
             ELSE (IF w.source_format # "S32" THEN -1 ELSE nr)
        ELSE IF w.format = WAVE_FORMAT_IEEEFLOAT /\ bps = 8
        THEN (IF w.source_format # "DBL" THEN -1 ELSE nr)
        ELSE nr

\* frames_to_read without the limit of WAV_MAX_READ: a variant the property
\* of C10 must tell from the code
frames_to_read_unlimited(w, n) ==
    LET needed0 == u32(i64(w.block_align * n))
        end == add64(w.data_start, w.data_size)
    IN  IF le64(end, add64(w.filepos, needed0))
        THEN int32(div64(u32(sub64(end, w.filepos)), w.block_align))
        ELSE n

\* the number of frames wavfile_read_samples asks fread for: the request
\* limited to WAV_MAX_READ and to the end of the data chunk
frames_to_read(w, n) ==
    LET num0 == MIN(n, WAV_MAX_READ)
        needed0 == u32(i64(w.block_align * num0))
        end == add64(w.data_start, w.data_size)
    IN  IF le64(end, add64(w.filepos, needed0))
        THEN int32(div64(u32(sub64(end, w.filepos)), w.block_align))
        ELSE num0

\* unpack without the sign of a 16-bit sample: a variant the property of
\* C15 must tell from the code
unpack_unsigned16(w, bps, b) ==
    IF bps = 1 THEN b[1]
    ELSE IF bps = 2 THEN b[1] + 256 * b[2]
    ELSE IF bps = 3
    THEN LET v == b[1] + 256 * b[2] + 65536 * b[3]
         IN  IF w.bit_width = 20 THEN (IF v >= 2^19 THEN v - 2^20 ELSE v)
             ELSE (IF v >= 2^23 THEN v - 2^24 ELSE v)
    ELSE IF bps = 4 /\ w.format # WAVE_FORMAT_IEEEFLOAT
    THEN b[1] + 256 * b[2] + 65536 * b[3]
            + (IF b[4] >= 128 THEN b[4] - 256 ELSE b[4]) * 2^24
    ELSE IF bps = 4 THEN float_of(b)
    ELSE double_of(b)

\* the sample held in the bytes b of one sample of the raw buffer, as the
\* branch for bps bytes per sample unpacks it
unpack(w, bps, b) ==
    IF bps = 1 THEN b[1]
    ELSE IF bps = 2 THEN wrap16(b[1] + 256 * b[2])
    ELSE IF bps = 3
    THEN LET v == b[1] + 256 * b[2] + 65536 * b[3]
         IN  IF w.bit_width = 20 THEN (IF v >= 2^19 THEN v - 2^20 ELSE v)
             ELSE (IF v >= 2^23 THEN v - 2^24 ELSE v)
    ELSE IF bps = 4 /\ w.format # WAVE_FORMAT_IEEEFLOAT
    THEN b[1] + 256 * b[2] + 65536 * b[3]
            + (IF b[4] >= 128 THEN b[4] - 256 ELSE b[4]) * 2^24
    ELSE IF bps = 4 THEN float_of(b)
    ELSE double_of(b)

\* the raw buffer as nsmp samples of the source format
unpack_all(w, bps, buffer, nsmp) ==
    [i \in 1..nsmp |-> unpack(w, bps, SubSeq(buffer, (i - 1) * bps + 1, i * bps))]

\* every sequence that takes its i-th element from the i-th set of S
RECURSIVE seqs_of(_)
seqs_of(S) ==
    IF Len(S) = 0 THEN {<<>>}
    ELSE {<<x>> \o t : x \in Head(S), t \in seqs_of(Tail(S))}

\* fmt_convert over a buffer: the contents the caller's buffer can have
\* afterwards; nothing is stored for a read format fmt_convert does not know
convert_all(dest_fmt, src_fmt, input) ==
    IF dest_fmt \notin SampleFormats THEN {<<>>}
    ELSE seqs_of([i \in 1..Len(input) |-> fmt_convert(dest_fmt, src_fmt, input[i])])

\* what the dispatch stores in the caller's buffer
read_output(w, buffer, nr) ==
    LET bps == w.block_align \div w.channels
    IN  IF read_result(w, nr) = -1 THEN {<<>>}
        ELSE IF bps \in 1..4 \/ (w.format = WAVE_FORMAT_IEEEFLOAT /\ bps = 8)
        THEN convert_all(w.read_format, w.source_format,
                         unpack_all(w, bps, buffer, nr * w.channels))
        ELSE {<<>>}

\* the blocks still allocated at the return of the dispatch: each
\* "return -1" skips the free of the raw buffer and, in the branches that
\* unpack into a second block, the free of that block
read_unfreed(w, nr) ==
    LET bps == w.block_align \div w.channels
    IN  IF read_result(w, nr) # -1 THEN {}
        ELSE IF bps = 3 \/ (bps = 4 /\ w.format # WAVE_FORMAT_IEEEFLOAT)
        THEN {"buffer", "input"}
        ELSE {"buffer"}

\* the bytes fread stored for nr whole frames read at f
raw_frames(w, f, nr) == SubSeq(file, val(f.cur) + 1, val(f.cur) + nr * w.block_align)

\* read_samples with the bytes read taken off data_size, as if the chunk
\* were used up: a variant the property of C21 must tell from the code
read_samples_uses_up(w, f, n) ==
    IF w.block_align <= 0
    THEN [ret |-> -1, wf |-> w, fp |-> f, out |-> {<<>>}, unfreed |-> {}]
    ELSE
    LET num == frames_to_read(w, n)
        r == fread_items(f, w.block_align, num)
        w1 == [w EXCEPT !.filepos = add64(@, u64(r.nr * w.block_align)),
                        !.data_size = sub64(@, u64(r.nr * w.block_align))]
    IN  IF num <= 0 THEN [ret |-> 0, wf |-> w, fp |-> f, out |-> {<<>>}, unfreed |-> {}]
        ELSE [ret |-> read_result(w1, r.nr), wf |-> w1, fp |-> r.fp,
              out |-> read_output(w1, raw_frames(w1, f, r.nr), r.nr),
              unfreed |-> read_unfreed(w1, r.nr)]

\* wavfile_read_samples(wf, output, n): [ret, wf, fp, out, unfreed]
read_samples(w, f, n) ==
    IF w.block_align <= 0
    THEN [ret |-> -1, wf |-> w, fp |-> f, out |-> {<<>>}, unfreed |-> {}]
    ELSE
    LET num == frames_to_read(w, n)
        r == fread_items(f, w.block_align, num)
        w1 == [w EXCEPT !.filepos = add64(@, u64(r.nr * w.block_align))]
    IN  IF num <= 0 THEN [ret |-> 0, wf |-> w, fp |-> f, out |-> {<<>>}, unfreed |-> {}]
        ELSE [ret |-> read_result(w1, r.nr), wf |-> w1, fp |-> r.fp,
              out |-> read_output(w1, raw_frames(w1, f, r.nr), r.nr),
              unfreed |-> read_unfreed(w1, r.nr)]

----------------------------------------------------------------------------
(* The position/seek facade.                                               *)

\* the switch on whence of wavfile_seek_samples: the destination handed to
\* aft_seek_set, for whence one of the three it knows
seek_target(w, offset, whence) ==
    LET fpos == w.filepos
        dst == w.data_start
        dsz == w.data_size
        byte_offset == smul64(offset, w.block_align)
        cur1 == sub64(fpos, SMIN64(neg64(byte_offset), sub64(fpos, dst)))
    IN  CASE whence = WAV_SEEK_SET ->
                add64(dst, CLIP64(byte_offset, u64(0), dsz))
          [] whence = WAV_SEEK_CUR ->
                MIN64(cur1, add64(dst, dsz))
          [] whence = WAV_SEEK_END ->
                sub64(add64(dst, dsz), CLIP64(byte_offset, u64(0), dsz))

\* seek_samples without the upper limit of WAV_SEEK_CUR: a variant the
\* property of C5 must tell from the code
seek_samples_unlimited(w, f, offset, whence) ==
    LET fpos == w.filepos
        dst == w.data_start
        dsz == w.data_size
        byte_offset == smul64(offset, w.block_align)
        newpos ==
            CASE whence = WAV_SEEK_SET ->
                    add64(dst, CLIP64(byte_offset, u64(0), dsz))
              [] whence = WAV_SEEK_CUR ->
                    sub64(fpos, SMIN64(neg64(byte_offset), sub64(fpos, dst)))
              [] whence = WAV_SEEK_END ->
                    sub64(add64(dst, dsz), CLIP64(byte_offset, u64(0), dsz))
    IN  IF w.block_align <= 0 THEN [rc |-> -1, wf |-> w, fp |-> f]
        ELSE IF lt64(fpos, dst) THEN [rc |-> -1, wf |-> w, fp |-> f]
        ELSE IF dsz = u64(0) THEN [rc |-> 0, wf |-> w, fp |-> f]
        ELSE IF whence \notin {WAV_SEEK_SET, WAV_SEEK_CUR, WAV_SEEK_END}
        THEN [rc |-> -1, wf |-> w, fp |-> f]
        ELSE aft_seek_set(w, f, newpos)

\* wavfile_seek_samples(wf, offset, whence), offset an int64_t: [rc, wf, fp]
seek_samples(w, f, offset, whence) ==
    IF w.block_align <= 0 THEN [rc |-> -1, wf |-> w, fp |-> f]
    ELSE IF lt64(w.filepos, w.data_start) THEN [rc |-> -1, wf |-> w, fp |-> f]
    ELSE IF w.data_size = u64(0) THEN [rc |-> 0, wf |-> w, fp |-> f]
    ELSE IF whence \notin {WAV_SEEK_SET, WAV_SEEK_CUR, WAV_SEEK_END}
    THEN [rc |-> -1, wf |-> w, fp |-> f]
    ELSE aft_seek_set(w, f, seek_target(w, offset, whence))

\* offset * wf->sample_rate / 1000 in int64_t
ms_to_samples(w, offset) == sdiv64(smul64(offset, val(w.sample_rate)), 1000)

\* wavfile_seek_time_ms(wf, offset, whence)
seek_time_ms(w, f, offset, whence) ==
    seek_samples(w, f, ms_to_samples(w, offset), whence)

\* wavfile_position(wf), a uint64_t: (uint64_t)-1 on error
position(w) ==
    IF w.block_align <= 0 THEN neg64(u64(1))
    ELSE IF w.data_start = u64(0) \/ w.data_size = u64(0) THEN u64(0)
    ELSE div64(sub64(w.filepos, w.data_start), w.block_align)

\* wavfile_position_time_ms(wf)
position_time_ms(w) == div64(mul64(position(w), 1000), val(w.sample_rate))

----------------------------------------------------------------------------
(* The calls a caller makes once wavfile_init has returned 0.              *)

\* the largest frame count a caller asks wavfile_read_samples for
MaxRequest == 4
\* the largest sample or millisecond offset a caller seeks by
MaxOffset == 2

Requests == {-1, 0, 1, 2, MaxRequest}
Offsets == {-1, 0, MaxOffset}
TimeOffsets == {-1, MaxOffset}
Whences == {WAV_SEEK_SET, WAV_SEEK_CUR, WAV_SEEK_END}
\* the (offset, whence) pairs of wavfile_seek_samples, one whence invalid
SeekArgs == (Offsets \X Whences) \cup {<<0, 3>>}
\* the (offset, whence) pairs of wavfile_seek_time_ms
SeekTimeArgs == (TimeOffsets \X Whences) \cup {<<0, 3>>}

wavfile_read_samples ==
    /\ pc = "ready"
    /\ \E n \in Requests :
         \E r \in {read_samples(wf, fp, n)} :
             /\ wf' = r.wf
             /\ fp' = r.fp
             /\ last' = called("read", n, 0, r.ret)
             /\ read_sum' = IF read_sum >= 0 /\ r.ret > 0
                             THEN read_sum + r.ret ELSE read_sum
             /\ output' \in r.out
             /\ unfreed' = r.unfreed
    /\ UNCHANGED <<file, transport, pc, found_fmt, chunks, conv>>

wavfile_seek_samples ==
    /\ pc = "ready"
    /\ \E a \in SeekArgs :
         \E r \in {seek_samples(wf, fp, i64(a[1]), a[2])} :
             /\ wf' = r.wf
             /\ fp' = r.fp
             /\ last' = called("seek", a[1], a[2], r.rc)
             /\ read_sum' = -1
    /\ UNCHANGED <<file, transport, pc, found_fmt, chunks, output, unfreed, conv>>

wavfile_seek_time_ms ==
    /\ pc = "ready"
    /\ \E a \in SeekTimeArgs :
         \E r \in {seek_time_ms(wf, fp, i64(a[1]), a[2])} :
             /\ wf' = r.wf
             /\ fp' = r.fp
             /\ last' = called("seek_ms", a[1], a[2], r.rc)
             /\ read_sum' = -1
    /\ UNCHANGED <<file, transport, pc, found_fmt, chunks, output, unfreed, conv>>

\* the caller chooses the format of the samples it wants: an assignment to
\* the read_format field between two calls
set_read_format ==
    /\ pc = "ready"
    /\ \E fmt \in SampleFormats : wf' = [wf EXCEPT !.read_format = fmt]
    /\ last' = called("set_read_format", 0, 0, 0)
    /\ UNCHANGED <<file, transport, fp, pc, found_fmt, chunks, read_sum, output, unfreed, conv>>

wavfile_position ==
    /\ pc = "ready"
    /\ last' = [called("position", 0, 0, 0) EXCEPT !.pos = position(wf)]
    /\ UNCHANGED <<file, transport, fp, wf, pc, found_fmt, chunks, read_sum, output, unfreed, conv>>

wavfile_position_time_ms ==
    /\ pc = "ready"
    /\ last' = [called("position_ms", 0, 0, 0) EXCEPT !.pos = position_time_ms(wf)]
    /\ UNCHANGED <<file, transport, fp, wf, pc, found_fmt, chunks, read_sum, output, unfreed, conv>>

----------------------------------------------------------------------------
(* The inputs.                                                             *)

le2(n) == bytes_of(n, 2)
le4(n) == bytes_of(n, 4)
\* n bytes of payload, none of them zero
filler(n) == [i \in 1 .. n |-> 64 + i]
LIST_ID == le4(1414744396)
HUGE == <<255, 255, 255, 255>>

riff_header == le4(RIFF_ID) \o le4(36) \o le4(WAVE_ID)

\* the 16 bytes of a fmt chunk
fmt_fields(tag, channels, rate, align, width) ==
    le2(tag) \o le2(channels) \o le4(rate) \o le4(rate * align)
        \o le2(align) \o le2(width)

fmt16(tag, channels, rate, align, width) ==
    le4(FMT__ID) \o le4(16) \o fmt_fields(tag, channels, rate, align, width)

\* a WAVE_FORMAT_EXTENSIBLE fmt chunk of 40 bytes
fmt40(channels, rate, align, width, mask, subformat) ==
    le4(FMT__ID) \o le4(40)
        \o fmt_fields(WAVE_FORMAT_EXTENSIBLE, channels, rate, align, width)
        \o le2(22) \o le2(width) \o le4(mask) \o le2(subformat) \o filler(14)

\* a WAVE_FORMAT_EXTENSIBLE tag on a chunk too short for the extension
fmt18(channels, rate, align, width) ==
    le4(FMT__ID) \o le4(18)
        \o fmt_fields(WAVE_FORMAT_EXTENSIBLE, channels, rate, align, width)
        \o le2(0)

data_chunk_bytes(size4, payload) == le4(DATA_ID) \o size4 \o filler(payload)

\* the data chunks: as declared, cut short by the end of the input, followed
\* by more bytes, not a whole number of frames, empty
DataChunks ==
    { data_chunk_bytes(le4(8), 8), data_chunk_bytes(le4(12), 8),
      data_chunk_bytes(le4(4), 8), data_chunk_bytes(le4(7), 7),
      data_chunk_bytes(le4(0), 0) }

std_fmt == fmt16(WAVE_FORMAT_PCM, 2, 44100, 4, 16)
alt_fmt == fmt40(1, 1500, 2, 16, 1, WAVE_FORMAT_PCM)

\* the chunks met before the data chunk
ChunkMenu ==
    { std_fmt, alt_fmt,
      LIST_ID \o le4(3) \o filler(3),
      LIST_ID \o HUGE \o filler(2),
      LIST_ID \o le4(INT32_MAX) \o filler(2),
      le4(0) \o le4(4) \o filler(4),
      LIST_ID \o le4(0),
      le4(FMT__ID) \o le4(14) \o filler(14) }

\* the longest run of chunks before the data chunk
MaxChunks == 2

RECURSIVE ChunkRuns(_)
ChunkRuns(k) ==
    IF k = 0 THEN {<<>>}
    ELSE ChunkRuns(k - 1)
            \cup {r \o c : r \in ChunkRuns(k - 1), c \in ChunkMenu}

\* inputs that differ in the chunks before the data chunk
StructureFiles ==
    {riff_header \o r \o data_chunk_bytes(le4(4), 4) : r \in ChunkRuns(MaxChunks)}

\* inputs that differ in the data chunk
DataFiles ==
    {riff_header \o alt_fmt \o d : d \in DataChunks}

\* inputs that differ in the format tag, channels, bit width and block
\* align, each with one frame of data (five for 8-bit mono)
FormatFiles ==
    {riff_header \o fmt16(tag, ch, 1500, 0, bw)
        \o data_chunk_bytes(le4(ch * ((bw + 7) \div 8)), ch * ((bw + 7) \div 8)) :
        tag \in {WAVE_FORMAT_PCM, WAVE_FORMAT_IEEEFLOAT}, ch \in {1, 2},
        bw \in {8, 12, 16, 20, 24, 32, 40, 64}}
    \cup
    {riff_header \o fmt16(tag, ch, 1500, al, 24) \o data_chunk_bytes(le4(3), 3) :
        tag \in {2, WAVE_FORMAT_EXTENSIBLE}, ch \in {1, 2}, al \in {0, 1, 3}}
    \cup
    {riff_header \o fmt18(1, 1500, 2, 16) \o data_chunk_bytes(le4(4), 4),
     riff_header \o fmt40(2, 1500, 2, 8, 0, WAVE_FORMAT_IEEEFLOAT)
        \o data_chunk_bytes(le4(4), 4),
     riff_header \o fmt16(WAVE_FORMAT_PCM, 1, 1500, 1, 8)
        \o data_chunk_bytes(le4(5), 5)}

\* inputs with a bad RIFF or WAVE tag or a bad fmt field, and every prefix of
\* a well-formed input
BrokenFiles ==
    {le4(RIFF_ID + 1) \o le4(36) \o le4(WAVE_ID) \o std_fmt \o data_chunk_bytes(le4(8), 8),
     le4(RIFF_ID) \o le4(36) \o le4(WAVE_ID + 1) \o std_fmt \o data_chunk_bytes(le4(8), 8),
     riff_header \o fmt16(WAVE_FORMAT_PCM, 0, 44100, 4, 16) \o data_chunk_bytes(le4(8), 8),
     riff_header \o fmt16(WAVE_FORMAT_PCM, 2, 0, 4, 16) \o data_chunk_bytes(le4(8), 8),
     riff_header \o fmt16(WAVE_FORMAT_PCM, 2, 44100, 4, 0) \o data_chunk_bytes(le4(8), 8)}
    \cup
    LET whole == riff_header \o alt_fmt \o data_chunk_bytes(le4(4), 4)
    IN  {SubSeq(whole, 1, n) : n \in 0 .. Len(whole)}

\* every input with the transports it is read through
Inputs ==
    ((StructureFiles \cup DataFiles) \X {"file", "file_nosize", "pipe"})
        \cup (FormatFiles \X {"file"})
        \cup (BrokenFiles \X {"file", "pipe"})

Init ==
    /\ \E i \in Inputs : file = i[1] /\ transport = i[2]
    /\ fp = [cur |-> u64(0), eof |-> FALSE]
    /\ wf = wf_zero
    /\ pc = "new"
    /\ found_fmt = FALSE
    /\ chunks = <<>>
    /\ last = no_call
    /\ read_sum = 0
    /\ output = <<>>
    /\ unfreed = {}
    /\ conv = no_conv

Next ==
    \/ wavfile_init_open
    \/ chunk_invalid
    \/ chunk_fmt
    \/ chunk_data
    \/ chunk_skip
    \/ wavfile_read_samples
    \/ wavfile_seek_samples
    \/ wavfile_seek_time_ms
    \/ wavfile_position
    \/ wavfile_position_time_ms

Spec == Init /\ [][Next]_vars

\* wavfile_init alone, run to its return
InitNext ==
    \/ wavfile_init_open
    \/ chunk_invalid
    \/ chunk_fmt
    \/ chunk_data
    \/ chunk_skip

\* wavfile_init has not returned
init_running == pc \in {"new", "chunks"}

\* The code is sequential: while wavfile_init has not returned, its next
\* step is taken.  This is WF_vars(InitNext) written out, with the state
\* predicate init_running in the place of ENABLED <<InitNext>>_vars: a step
\* of wavfile_init is possible exactly in the states where it has not
\* returned, and every step adds a chunk to the history or changes pc.
InitSpec ==
    Init /\ [][InitNext]_vars /\ (([]<>~init_running) \/ []<><<InitNext>>_vars)

----------------------------------------------------------------------------
(* Reading in a format the caller chose: files whose samples are known,    *)
(* read after the caller has set read_format.                              *)

\* a data chunk holding the given bytes
data_of(payload) == le4(DATA_ID) \o le4(Len(payload)) \o payload

\* 2 channels, 16-bit PCM, 44100 Hz, the frames (0x0001, 0x0002) and
\* (0xFFFF, 0x8000)
ScenarioFile == riff_header \o std_fmt \o data_of(<<1, 0, 2, 0, 255, 255, 0, 128>>)

\* one file per source format, with the extreme samples of the format; a
\* file with a chunk to skip; a file that ends before its data chunk; files
\* whose samples take 5 bytes, 8 bytes of PCM, and less than one byte
SampleFiles ==
    { ScenarioFile,
      riff_header \o fmt16(WAVE_FORMAT_PCM, 1, 1500, 1, 8) \o data_of(<<0, 128, 255>>),
      riff_header \o fmt16(WAVE_FORMAT_PCM, 1, 1500, 3, 20)
          \o data_of(<<255, 255, 7, 0, 0, 8>>),
      riff_header \o fmt16(WAVE_FORMAT_PCM, 1, 1500, 3, 24)
          \o data_of(<<255, 255, 127, 0, 0, 128>>),
      riff_header \o fmt16(WAVE_FORMAT_PCM, 1, 1500, 4, 32)
          \o data_of(<<255, 255, 255, 127, 0, 0, 0, 128>>),
      riff_header \o fmt16(WAVE_FORMAT_IEEEFLOAT, 1, 1500, 4, 32)
          \o data_of(<<0, 0, 128, 63, 0, 0, 128, 191, 0, 0, 64, 59>>),
      riff_header \o fmt16(WAVE_FORMAT_IEEEFLOAT, 1, 1500, 8, 64)
          \o data_of(<<0, 0, 0, 0, 0, 0, 240, 63, 0, 0, 0, 0, 0, 0, 224, 191>>),
      riff_header \o std_fmt \o LIST_ID \o le4(2) \o filler(2)
          \o data_of(<<1, 0, 2, 0>>),
      riff_header \o std_fmt,
      riff_header \o fmt16(WAVE_FORMAT_PCM, 1, 1500, 5, 40) \o data_of(filler(10)),
      riff_header \o fmt16(WAVE_FORMAT_PCM, 1, 1500, 8, 64) \o data_of(filler(8)),
      riff_header \o fmt16(2, 2, 1500, 1, 4) \o data_of(filler(2)) }

ReadInit ==
    /\ file \in SampleFiles
    /\ transport \in {"file", "pipe"}
    /\ fp = [cur |-> u64(0), eof |-> FALSE]
    /\ wf = wf_zero
    /\ pc = "new"
    /\ found_fmt = FALSE
    /\ chunks = <<>>
    /\ last = no_call
    /\ read_sum = 0
    /\ output = <<>>
    /\ unfreed = {}
    /\ conv = no_conv

ReadNext ==
    \/ wavfile_init_open
    \/ chunk_invalid
    \/ chunk_fmt
    \/ chunk_data
    \/ chunk_skip
    \/ set_read_format
    \/ wavfile_read_samples
    \/ wavfile_position

ReadSpec == ReadInit /\ [][ReadNext]_vars

----------------------------------------------------------------------------
(* The conversions on their own: fmt_convert applied to one sample, then   *)
(* to its result.                                                          *)

MaxConversions == 2

IntFormats == {"U8", "S16", "S20", "S24", "S32"}

\* the least and the greatest sample of an integer format
min_of(fmt) == IF fmt = "U8" THEN 0 ELSE IF fmt = "S32" THEN -2147483647 - 1
               ELSE -(2^(width_of(fmt) - 1))
max_of(fmt) == IF fmt = "U8" THEN 255 ELSE IF fmt = "S32" THEN 2147483647
               ELSE 2^(width_of(fmt) - 1) - 1

\* samples of an integer format: all of U8; of the others the ends of the
\* range, the values around zero and around each narrower width
IntSamples(fmt) ==
    IF fmt = "U8" THEN 0..255
    ELSE {x \in {min_of(fmt), min_of(fmt) + 1, max_of(fmt) - 1, max_of(fmt)}
                  \cup {-32769, -32768, -257, -256, -129, -128, -2, -1, 0, 1, 2,
                         127, 128, 255, 256, 21845, 32767, 32768, 43690,
                         -524288, -524289, 524287, 524288, 349525,
                         -8388608, 8388607} :
             x >= min_of(fmt) /\ x <= max_of(fmt)}

\* samples a float can hold: zero, the full-scale values and their
\* neighbours, values beyond full scale, values that fall between two
\* integers of a destination
FloatSamples ==
    { real(0, 0), real(1, 0), real(-1, 0), real(2, 0), real(-2, 0),
      real(1000, 0), real(-1000, 0), real(1, 1), real(-1, 1), real(-3, 1),
      real(32767, 15), real(32766, 15), real(-32767, 15),
      real(65535, 16), real(65533, 16), real(-65535, 16), real(-65537, 16),
      real(255, 8), real(-255, 8), real(-257, 8),
      real(16777215, 24), real(-16777215, 24), real(1, 24), real(-1, 24),
      real(8388607, 23), real(-8388607, 23), real(8388609, 23),
      real(1, 30), real(-1, 30), real(3, -20), real(-3, -20) }

\* samples only a double can hold
DoubleSamples ==
    FloatSamples \cup
    { real(16777217, 24), real(-16777217, 24), real(2147483647, 31),
      real(-2147483647, 31), real(1073741825, 30), real(-1073741825, 30) }

Samples(fmt) ==
    IF fmt \in IntFormats THEN IntSamples(fmt)
    ELSE IF fmt = "FLT" THEN FloatSamples ELSE DoubleSamples

ConvInit ==
    /\ file = <<>>
    /\ transport = "file"
    /\ fp = [cur |-> u64(0), eof |-> FALSE]
    /\ wf = wf_zero
    /\ pc = "convert"
    /\ found_fmt = FALSE
    /\ chunks = <<>>
    /\ last = no_call
    /\ read_sum = 0
    /\ output = <<>>
    /\ unfreed = {}
    /\ \E fmt \in SampleFormats : \E x \in Samples(fmt) :
          conv = [fmt |-> fmt, x |-> x, fmt0 |-> fmt, x0 |-> x, via |-> "none", n |-> 0]

\* one call of fmt_convert on the sample: it is now a sample of dest_fmt
convert ==
    /\ pc = "convert"
    /\ conv.n < MaxConversions
    /\ \E dest_fmt \in SampleFormats :
         \E y \in fmt_convert(dest_fmt, conv.fmt, conv.x) :
            conv' = [conv EXCEPT !.fmt = dest_fmt, !.x = y, !.n = @ + 1,
                                 !.via = IF conv.n = 0 THEN dest_fmt ELSE @]
    /\ UNCHANGED <<file, transport, fp, wf, pc, found_fmt, chunks, last, read_sum,
                   output, unfreed>>

ConvNext == convert

ConvSpec == ConvInit /\ [][ConvNext]_vars

----------------------------------------------------------------------------
(* aft_seek_set on its own, on a seekable stream, between positions on     *)
(* both sides of 2 GiB and 2 GiB apart and more.                           *)

\* the positions 2^30 * k + d
SeekPoints ==
    {u64(44)} \cup
    {add64(mul64(u64(2^30), k[1]), i64(k[2])) :
        k \in ({0, 2, 4, 6} \X {-1, 0, 1}) \ {<<0, -1>>}}

\* a short regular file, the cursor and the tracked position together at
\* one of the positions (a seek may go past the end of a file)
SeekInit ==
    /\ file = filler(8)
    /\ transport = "file_nosize"
    /\ \E p \in SeekPoints :
          /\ fp = [cur |-> p, eof |-> FALSE]
          /\ wf = [wf_zero EXCEPT !.seekable = TRUE, !.filepos = p]
    /\ pc = "seeking"
    /\ found_fmt = FALSE
    /\ chunks = <<>>
    /\ last = no_call
    /\ read_sum = 0
    /\ output = <<>>
    /\ unfreed = {}
    /\ conv = no_conv

\* one call aft_seek_set(wf, dest); last.pos keeps dest
aft_seek_set_call ==
    /\ pc = "seeking"
    /\ \E dest \in SeekPoints :
         \E r \in {aft_seek_set(wf, fp, dest)} :
            /\ wf' = r.wf
            /\ fp' = r.fp
            /\ last' = [called("aft_seek_set", 0, 0, r.rc) EXCEPT !.pos = dest]
    /\ UNCHANGED <<file, transport, pc, found_fmt, chunks, read_sum, output, unfreed, conv>>

SeekNext == aft_seek_set_call

SeekSpec == SeekInit /\ [][SeekNext]_vars

----------------------------------------------------------------------------
(* The chunks of the input, read off its bytes alone.                      *)

IdAt(o) == SubSeq(file, o + 1, o + 4)
SizeBytesAt(o) == SubSeq(file, o + 5, o + 8)
\* a declared size that reaches past the end of every input of the model
FarSizeAt(o) == SizeBytesAt(o)[3] # 0 \/ SizeBytesAt(o)[4] # 0
SizeAt(o) == SizeBytesAt(o)[1] + 256 * SizeBytesAt(o)[2]

RECURSIVE ChunkOffsets(_)
\* the offsets of the chunk headers that lie wholly inside the input, from
\* the header at o up to the first data chunk, each found from the declared
\* size of the one before
ChunkOffsets(o) ==
    IF o + 8 > Len(file) THEN <<>>
    ELSE IF IdAt(o) = le4(DATA_ID) \/ FarSizeAt(o) THEN <<o>>
    ELSE <<o>> \o ChunkOffsets(o + 8 + SizeAt(o))

\* the offset of the first data chunk of the input, -1 when it has none
DataOffset ==
    LET offs == ChunkOffsets(12)
    IN  IF offs # <<>> /\ IdAt(offs[Len(offs)]) = le4(DATA_ID)
        THEN offs[Len(offs)] ELSE -1

\* wavfile_init has just returned 0
InitReturnedSuccess == pc = "ready" /\ last.op = "init"

----------------------------------------------------------------------------
(* Properties.                                                             *)

\* C1: when wavfile_init returns 0, the tracked position equals data_start,
\* data_start is the offset just after the 8-byte header of the input's data
\* chunk, and the stream's own cursor is there too, whatever chunks precede
\* the data chunk.
C1_CursorAtFirstSample ==
    InitReturnedSuccess =>
        /\ wf.filepos = wf.data_start
        /\ DataOffset >= 0
        /\ wf.data_start = u64(DataOffset + 8)
        /\ fp.cur = wf.data_start

\* a successful wavfile_init that met a skipped chunk and a fmt chunk with
\* the extension before the data chunk, on an input that cannot seek
C1_Witness ==
    /\ InitReturnedSuccess
    /\ transport = "pipe"
    /\ \E i \in 1 .. Len(chunks) : chunks[i].kind = "other"
    /\ \E i \in 1 .. Len(chunks) : chunks[i].kind = "fmt" /\ chunks[i].size = u64(40)

\* C2: after every successful wavfile_init, read_format equals source_format
\* (a 16-bit PCM file leaves read_format = S16).
C2_ReadFormatIsSourceFormat ==
    InitReturnedSuccess => wf.read_format = wf.source_format

\* the resolution table of the specification
TableFormat(format, bit_width) ==
    IF format = WAVE_FORMAT_PCM
    THEN CASE bit_width = 8 -> "U8"
           [] bit_width = 16 -> "S16"
           [] bit_width = 20 -> "S20"
           [] bit_width = 24 -> "S24"
           [] bit_width = 32 -> "S32"
           [] OTHER -> "UNKNOWN"
    ELSE IF format = WAVE_FORMAT_IEEEFLOAT
    THEN CASE bit_width = 32 -> "FLT"
           [] bit_width = 64 -> "DBL"
           [] OTHER -> "UNKNOWN"
    ELSE "UNKNOWN"

\* C3: after a successful wavfile_init, source_format is the value the
\* resolution table gives for the format tag and the bit width; IEEE float
\* of 8, 16, 20 or 24 bits and PCM of 64 bits are unknown.
C3_SourceFormatFollowsTable ==
    InitReturnedSuccess => wf.source_format = TableFormat(wf.format, wf.bit_width)

\* at least one whole frame lies between the tracked position and the end of
\* the data
WholeFrameRemains ==
    /\ wf.block_align > 0
    /\ le64(add64(wf.filepos, u64(wf.block_align)),
            add64(wf.data_start, wf.data_size))

\* C4: with source_format unknown, a wavfile_read_samples call asking for at
\* least one sample while data remains returns -1, never a count (a count of
\* 0 tells only that no whole frame was left); the channel count and the
\* sample rate stay set.
C4_UnknownFormatReadFails ==
    (pc = "ready" /\ wf.source_format = "UNKNOWN"
        /\ last.op = "read" /\ last.arg >= 1) =>
        /\ last.ret = -1 \/ (last.ret = 0 /\ ~WholeFrameRemains)
        /\ wf.channels >= 1
        /\ wf.sample_rate # u64(0)

\* C5: after a successful wavfile_init, whatever reads and seeks are called,
\* data_start <= filepos <= data_start + data_size.
C5_PositionWithinData ==
    pc = "ready" =>
        /\ le64(wf.data_start, wf.filepos)
        /\ le64(wf.filepos, add64(wf.data_start, wf.data_size))

\* a WAV_SEEK_CUR seek forward by more than remains has left the position at
\* the end of the data
C5_Witness ==
    /\ pc = "ready"
    /\ last.op = "seek" /\ last.whence = WAV_SEEK_CUR /\ last.arg = MaxOffset
    /\ last.ret = 0
    /\ wf.data_size # u64(0)
    /\ lt64(wf.data_size, u64(MaxOffset * wf.block_align))
    /\ wf.filepos = add64(wf.data_start, wf.data_size)

\* the size the input's data chunk declares
DeclaredDataSize == SizeBytesAt(DataOffset) \o <<0, 0, 0, 0>>

\* C6: after a successful wavfile_init on a seekable input of known size
\* (> 0), data_start + data_size <= file_size; a data chunk that declares
\* more than remains has data_size = file_size - data_start; and samples is
\* floor(data_size / block_align), which has a value only for block_align >= 1.
C6_DataWithinFile ==
    (pc = "ready" /\ wf.seekable /\ lt64(u64(0), wf.file_size)) =>
        /\ le64(add64(wf.data_start, wf.data_size), wf.file_size)
        /\ lt64(sub64(wf.file_size, wf.data_start), DeclaredDataSize)
                => wf.data_size = sub64(wf.file_size, wf.data_start)
        /\ wf.block_align >= 1
        /\ wf.samples = div64(wf.data_size, wf.block_align)

\* the structural errors of an input, read off its bytes
BadRiff == Len(file) < 4 \/ SubSeq(file, 1, 4) # le4(RIFF_ID)
BadWave == Len(file) < 12 \/ SubSeq(file, 9, 12) # le4(WAVE_ID)
ZeroChunk ==
    \E i \in 1 .. Len(ChunkOffsets(12)) :
        \/ IdAt(ChunkOffsets(12)[i]) = <<0, 0, 0, 0>>
        \/ SizeBytesAt(ChunkOffsets(12)[i]) = <<0, 0, 0, 0>>
NoDataChunk == DataOffset = -1
DataBeforeFmt ==
    /\ DataOffset >= 0
    /\ \A i \in 1 .. Len(ChunkOffsets(12)) :
        IdAt(ChunkOffsets(12)[i]) # le4(FMT__ID)
ShortFmt ==
    \E i \in 1 .. Len(ChunkOffsets(12)) :
        /\ IdAt(ChunkOffsets(12)[i]) = le4(FMT__ID)
        /\ ~FarSizeAt(ChunkOffsets(12)[i])
        /\ SizeAt(ChunkOffsets(12)[i]) < 16
StructurallyInvalid ==
    BadRiff \/ BadWave \/ ZeroChunk \/ NoDataChunk \/ DataBeforeFmt \/ ShortFmt

\* C7: wavfile_init never returns success for a structurally invalid input
\* (bad RIFF tag, bad WAVE tag, a chunk with a zero id or size or an input
\* that ends before its data chunk, a data chunk before any fmt chunk, a fmt
\* chunk shorter than 16 bytes): it returns an error; and a bad RIFF tag is
\* rejected with no chunk read, after the first four bytes.
C7_StructuralErrorsRejected ==
    /\ StructurallyInvalid =>
        /\ pc \in {"new", "chunks", "failed"}
        /\ pc = "failed" => last.op = "init" /\ last.ret = -1
    /\ (BadRiff /\ pc # "new") =>
        /\ pc = "failed"
        /\ chunks = <<>>
        /\ le64(fp.cur, u64(4))

\* wavfile_init has failed on a data chunk that follows a skipped chunk and
\* no fmt chunk
C7_Witness ==
    /\ pc = "failed"
    /\ DataBeforeFmt
    /\ Len(chunks) = 2
    /\ chunks[1].kind = "other"
    /\ chunks[2].kind = "data"

\* how many chunks of a kind the chunk loop has read
NumChunks(kind) == Cardinality({i \in 1 .. Len(chunks) : chunks[i].kind = kind})

\* the fields of the fmt chunk at offset o of the input
W2(o) == file[o + 1] + 256 * file[o + 2]
W4(o) == W2(o) + 65536 * W2(o + 2)
HasExtensionAt(o) == W2(o + 8) = WAVE_FORMAT_EXTENSIBLE /\ SizeAt(o) >= 26
FormatAt(o) == IF HasExtensionAt(o) THEN W2(o + 32) ELSE W2(o + 8)
MaskAt(o) ==
    IF HasExtensionAt(o) /\ W4(o + 28) # 0 THEN W4(o + 28)
    ELSE default_ch_mask(W2(o + 10))
BlockAlignAt(o) ==
    IF FormatAt(o) \in {WAVE_FORMAT_PCM, WAVE_FORMAT_IEEEFLOAT}
    THEN MAX(1, ((W2(o + 22) + 7) \div 8) * W2(o + 10))
    ELSE W2(o + 20)
\* the descriptor wf holds is the one of the fmt chunk at offset o
DescriptorFrom(o) ==
    /\ wf.format = FormatAt(o)
    /\ wf.channels = W2(o + 10)
    /\ wf.sample_rate = u64(W4(o + 12))
    /\ wf.bit_width = W2(o + 22)
    /\ wf.block_align = BlockAlignAt(o)
    /\ wf.ch_mask = u64(MaskAt(o))
    /\ wf.bytes_per_sec = u64(W4(o + 12) * BlockAlignAt(o))

\* the chunk loop read exactly the chunks of the input up to its data chunk
ChunksFollowInput ==
    /\ Len(chunks) = Len(ChunkOffsets(12))
    /\ \A i \in 1 .. Len(chunks) :
        /\ chunks[i].off = u64(ChunkOffsets(12)[i])
        /\ chunks[i].kind =
             IF IdAt(ChunkOffsets(12)[i]) = le4(FMT__ID) THEN "fmt"
             ELSE IF IdAt(ChunkOffsets(12)[i]) = le4(DATA_ID) THEN "data"
             ELSE "other"

\* C8 as the specification states it: a successful wavfile_init interprets
\* exactly one fmt chunk and exactly one data chunk.
C8_OneFmtOneData ==
    pc = "ready" => NumChunks("fmt") = 1 /\ NumChunks("data") = 1

\* C8, amended: a successful wavfile_init interprets exactly one data chunk,
\* the first of the input, and every fmt chunk before it, at least one; the
\* descriptor is the one of the last of these fmt chunks alone, and every
\* other chunk is passed over by its declared size.
C8_LastFmtDecides ==
    pc = "ready" =>
        /\ NumChunks("data") = 1
        /\ NumChunks("fmt") >= 1
        /\ ChunksFollowInput
        /\ \E i \in 1 .. Len(chunks) :
            /\ chunks[i].kind = "fmt"
            /\ \A j \in (i + 1) .. Len(chunks) : chunks[j].kind # "fmt"
            /\ DescriptorFrom(ChunkOffsets(12)[i])

\* a successful wavfile_init that read a fmt chunk with the extension and
\* then one without
C8_Witness ==
    /\ pc = "ready"
    /\ Len(chunks) = 3
    /\ chunks[1].kind = "fmt" /\ chunks[1].size = u64(40)
    /\ chunks[2].kind = "fmt" /\ chunks[2].size = u64(16)

\* C9: a non-data chunk of declared size K that the chunk loop has passed
\* moved the tracked position by 8 + K from the chunk's id, K being the size
\* the input holds there, and the stream's cursor is at the tracked position
\* whenever that lies within the input.
C9_ChunkAdvance ==
    \A i \in 1 .. Len(chunks) :
        (chunks[i].kind \in {"fmt", "other"} /\ (i < Len(chunks) \/ pc = "chunks")) =>
            /\ chunks[i].real = chunks[i].off
            /\ chunks[i].size = SizeBytesAt(val(chunks[i].off)) \o <<0, 0, 0, 0>>
            /\ (IF i < Len(chunks) THEN chunks[i + 1].off ELSE wf.filepos)
                 = add64(add64(chunks[i].off, u64(8)), chunks[i].size)
            /\ le64(add64(add64(chunks[i].off, u64(8)), chunks[i].size), u64(Len(file)))
                 => (IF i < Len(chunks) THEN chunks[i + 1].real ELSE fp.cur)
                      = add64(add64(chunks[i].off, u64(8)), chunks[i].size)

\* the chunk loop passed a fmt chunk of 40 bytes with the extension, then a
\* chunk of 3 bytes it does not know, and found the data chunk
C9_Witness ==
    /\ pc = "ready"
    /\ Len(chunks) = 3
    /\ chunks[1].kind = "fmt" /\ chunks[1].size = u64(40)
    /\ chunks[2].kind = "other" /\ chunks[2].size = u64(3)
    /\ chunks[3].kind = "data"

Min3(a, b, c) == MIN(a, MIN(b, c))

\* C10: with a supported source format and an input that holds all the
\* declared data, every wavfile_read_samples(n), n >= 1, in a run of reads
\* from data_start returns min(n, WAV_MAX_READ, whole frames left), never -1;
\* the counts returned never sum to more than samples, and a call returns 0
\* exactly when the counts returned before it sum to samples.
C10_ReadCounts ==
    (pc = "ready" /\ wf.source_format \in SampleFormats
        /\ le64(add64(wf.data_start, wf.data_size), u64(Len(file)))
        /\ read_sum >= 0 /\ last.op = "read" /\ last.arg >= 1) =>
        /\ last.ret >= 0
        /\ last.ret = Min3(last.arg, WAV_MAX_READ,
                           val(wf.samples) - (read_sum - last.ret))
        /\ read_sum <= val(wf.samples)
        /\ last.ret = 0 <=> read_sum - last.ret = val(wf.samples)

\* a run of reads has returned every frame of a data chunk longer than
\* WAV_MAX_READ frames, and the read after them returned 0
C10_Witness ==
    /\ pc = "ready"
    /\ wf.source_format \in SampleFormats
    /\ le64(add64(wf.data_start, wf.data_size), u64(Len(file)))
    /\ val(wf.samples) > WAV_MAX_READ
    /\ read_sum = val(wf.samples)
    /\ last.op = "read" /\ last.arg = MaxRequest /\ last.ret = 0

\* the samples offset a seek call of the facade asked for, from the call's
\* record c and the structure w before it
RequestedSamples(w, c) ==
    IF c.op = "seek_ms" THEN ms_to_samples(w, i64(c.arg)) ELSE i64(c.arg)

\* C11: a seek of the facade that returns an error leaves the tracked
\* position as it was before the call; a seek returns 0 or -1; and the
\* tracked position changes only in a seek that returns 0, to the
\* destination handed to aft_seek_set.
C11_SeekErrorKeepsPosition ==
    [][(pc = "ready" /\ last'.op \in {"seek", "seek_ms"}) =>
          /\ last'.ret \in {0, -1}
          /\ last'.ret = -1 => wf'.filepos = wf.filepos
          /\ wf'.filepos # wf.filepos =>
                /\ last'.ret = 0
                /\ last'.whence \in Whences
                /\ wf'.filepos = seek_target(wf, RequestedSamples(wf, last'), last'.whence)]_vars

\* a seek back to the start of the data has failed on an input that cannot
\* seek, with the tracked position past the start
C11_Witness ==
    /\ pc = "ready"
    /\ transport = "pipe"
    /\ last.op = "seek" /\ last.whence = WAV_SEEK_SET /\ last.arg = 0
    /\ last.ret = -1
    /\ lt64(wf.data_start, wf.filepos)

\* C12: on an input that cannot seek, positioned at data_start, a
\* wavfile_seek_samples(N, WAV_SEEK_SET) with 0 <= N * block_align <=
\* data_size returns 0 and takes exactly N * block_align bytes from the
\* stream; and every seek of such an input fails when its destination is
\* below the tracked position and succeeds otherwise.
C12_EmulatedSeekConsumes ==
    [][(pc = "ready" /\ ~wf.seekable /\ wf.block_align >= 1
            /\ last'.op = "seek" /\ last'.whence \in Whences) =>
          /\ (wf.filepos = wf.data_start /\ fp.cur = wf.data_start
                /\ last'.whence = WAV_SEEK_SET /\ last'.arg >= 0
                /\ le64(u64(last'.arg * wf.block_align), wf.data_size)) =>
                /\ last'.ret = 0
                /\ fp'.cur = add64(fp.cur, u64(last'.arg * wf.block_align))
          /\ wf.data_size # u64(0) =>
                last'.ret = IF lt64(seek_target(wf, i64(last'.arg), last'.whence),
                                    wf.filepos)
                            THEN -1 ELSE 0]_vars

\* where fseek semantics put a seek by `offset` samples: the origin of the
\* whence plus the offset in bytes, limited to the data
FseekTarget(w, offset, whence) ==
    CLIP64(add64(CASE whence = WAV_SEEK_SET -> w.data_start
                   [] whence = WAV_SEEK_CUR -> w.filepos
                   [] whence = WAV_SEEK_END -> add64(w.data_start, w.data_size),
                 smul64(offset, w.block_align)),
           w.data_start, add64(w.data_start, w.data_size))

\* C13: wavfile_seek_samples follows fseek for whence: WAV_SEEK_SET targets
\* data_start + offset, WAV_SEEK_CUR the current position + offset,
\* WAV_SEEK_END the end of the data + offset (a negative offset moves back
\* from the end, offset 0 lands on the end), each limited to the data.
C13_SeekLikeFseek ==
    [][(pc = "ready" /\ wf.seekable /\ wf.block_align >= 1
            /\ wf.data_size # u64(0)
            /\ last'.op = "seek" /\ last'.whence \in Whences) =>
          /\ last'.ret = 0
          /\ wf'.filepos = FseekTarget(wf, i64(last'.arg), last'.whence)]_vars

\* C14: whenever wavfile_position reports an error for the handle
\* (block_align <= 0), wavfile_position_time_ms returns the error value -1,
\* that is (uint64_t)-1, and no time value.
C14_PositionTimeError ==
    (pc = "ready" /\ last.op = "position_ms" /\ wf.block_align <= 0) =>
        last.pos = neg64(u64(1))

\* C15: the file of the end-to-end scenario (2 channels, 16-bit PCM, 44100
\* Hz, 8 data bytes 01 00 02 00 FF FF 00 80) is parsed without error into
\* 2 frames of 4 bytes, and a read of 2 frames from its start with
\* read_format = S16 returns 2, stores the samples 1, 2, -1, -32768 and
\* leaves position() = 2.
C15_EndToEnd ==
    /\ [](file = ScenarioFile =>
            /\ pc \notin {"failed", "crashed"}
            /\ pc = "ready" => wf.samples = u64(2) /\ wf.block_align = 4)
    /\ [][(file = ScenarioFile /\ pc = "ready" /\ wf.read_format = "S16"
              /\ wf.filepos = wf.data_start
              /\ last'.op = "read" /\ last'.arg = 2) =>
             /\ last'.ret = 2
             /\ output' = <<1, 2, -1, -32768>>
             /\ position(wf') = u64(2)]_vars

C15_Witness ==
    /\ file = ScenarioFile /\ pc = "ready" /\ wf.read_format = "S16"
    /\ last.op = "read" /\ last.arg = 2 /\ last.ret = 2
    /\ output = <<1, 2, -1, -32768>>
    /\ position(wf) = u64(2)

\* C16: a sample of an integer format, converted to a wider integer format
\* and back, is the sample it was; a sample converted to its own format is
\* unchanged, for all seven formats.
C16_RoundTrip ==
    /\ (conv.n = 2 /\ conv.fmt0 \in IntFormats /\ conv.via \in IntFormats
            /\ width_of(conv.fmt0) < width_of(conv.via) /\ conv.fmt = conv.fmt0)
          => conv.x = conv.x0
    /\ (conv.n = 1 /\ conv.fmt = conv.fmt0) => conv.x = conv.x0

C16_Witness ==
    /\ conv.n = 2 /\ conv.fmt0 = "U8" /\ conv.via = "S32" /\ conv.fmt = "U8"
    /\ conv.x0 = 255 /\ conv.x = 255

\* is the real v at least 32767/32768, at most -1
AtLeastMax16(v) ==
    IF v.e < 0 THEN v.m >= 1
    ELSE IF v.e > 31 THEN FALSE
    ELSE IF v.e >= 15 THEN v.m >= 32767 * 2^(v.e - 15)
    ELSE v.m * 2^(15 - v.e) >= 32767
AtMostMinusOne(v) ==
    IF v.e < 0 THEN v.m <= -1 ELSE IF v.e > 30 THEN FALSE ELSE v.m <= -(2^v.e)

\* C17: a FLT or DBL sample converted to S16 lies in -32768..32767, is
\* 32767 when the sample is at least 32767/32768 (so for +1.0) and -32768
\* when it is at most -1.0; converted to U8, S20, S24 it lies in 0..255,
\* -524288..524287, -8388608..8388607.
C17_FloatClipped ==
    (conv.n = 1 /\ conv.fmt0 \in {"FLT", "DBL"}) =>
        /\ conv.fmt = "S16" =>
              /\ conv.x \in -32768..32767
              /\ AtLeastMax16(conv.x0) => conv.x = 32767
              /\ AtMostMinusOne(conv.x0) => conv.x = -32768
        /\ conv.fmt = "U8" => conv.x \in 0..255
        /\ conv.fmt = "S20" => conv.x \in -524288..524287
        /\ conv.fmt = "S24" => conv.x \in -8388608..8388607

C17_Witness ==
    /\ conv.n = 1 /\ conv.fmt0 = "FLT" /\ conv.x0 = real(1, 0)
    /\ conv.fmt = "S16" /\ conv.x = 32767

\* C18: wavfile_init returns on every input, file or pipe: an iteration of
\* the chunk loop that does not leave the loop moves the tracked position
\* forward by at least 9 bytes, an iteration that starts with fewer than 8
\* bytes left reads a zero id or size and returns an error, and every run
\* reaches the return (or the trap of C6).
C18_InitTerminates ==
    /\ [][(pc = "chunks" /\ pc' = "chunks") =>
             le64(add64(wf.filepos, u64(9)), wf'.filepos)]_vars
    /\ [][(pc = "chunks" /\ avail(fp) < 8) => pc' = "failed"]_vars
    /\ <>(~init_running)

C18_Witness ==
    /\ pc = "failed" /\ Len(chunks) = 2
    /\ chunks[1].kind = "other"
    /\ chunks[2].kind = "invalid" /\ chunks[2].id = u64(0)
    /\ avail(fp) = 0

\* C19: aft_seek_set on a seekable stream.  A destination up to INT32_MAX
\* is reached by an absolute seek, forward or backward.  Above it, with
\* offset = dest - filepos: an offset that fits 32 signed bits is handed to
\* a relative seek; an offset below INT32_MIN gives an error and nothing
\* moves; an offset above INT32_MAX is read through, the call succeeds and
\* the tracked position is dest.
C19_SeekBeyond2GiB ==
    [][(pc = "seeking" /\ wf.seekable /\ last'.op = "aft_seek_set") =>
         IF le64(last'.pos, INT32_MAX64)
         THEN /\ last'.ret = 0
              /\ fp' = [cur |-> last'.pos, eof |-> FALSE]
              /\ wf'.filepos = last'.pos
         ELSE IF slt64(sub64(last'.pos, wf.filepos), INT32_MIN64)
         THEN last'.ret = -1 /\ wf' = wf /\ fp' = fp
         ELSE IF sle64(sub64(last'.pos, wf.filepos), INT32_MAX64)
         THEN \/ /\ last'.ret = 0
                 /\ fp' = [cur |-> add64(fp.cur, sub64(last'.pos, wf.filepos)),
                            eof |-> FALSE]
                 /\ wf'.filepos = last'.pos
              \/ /\ isneg64(add64(fp.cur, sub64(last'.pos, wf.filepos)))
                 /\ last'.ret = -1 /\ wf' = wf /\ fp' = fp
         ELSE /\ last'.ret = 0
              /\ wf'.filepos = last'.pos
              /\ fp'.eof \/ fp'.cur = add64(fp.cur, sub64(last'.pos, wf.filepos))
              /\ le64(fp.cur, fp'.cur)]_vars

C19_Witness ==
    /\ pc = "seeking" /\ wf.seekable
    /\ last.op = "aft_seek_set" /\ last.ret = -1
    /\ last.pos = mul64(u64(2^30), 2)
    /\ wf.filepos = add64(mul64(u64(2^30), 4), u64(1))

\* C20: when wavfile_read_samples returns, on any path, it has freed the
\* raw buffer and the unpacking buffer it allocated.
C20_BuffersReleased ==
    (pc = "ready" /\ last.op = "read") => unfreed = {}

\* the fields wavfile_init fills and no later call writes
Metadata(w) ==
    <<w.format, w.channels, w.sample_rate, w.bit_width, w.block_align,
      w.ch_mask, w.source_format, w.read_format, w.data_start, w.data_size,
      w.samples, w.file_size, w.seekable>>

\* C21: once wavfile_init has returned 0, every call of
\* wavfile_read_samples, wavfile_seek_samples, wavfile_seek_time_ms,
\* wavfile_position and wavfile_position_time_ms leaves format, channels,
\* sample_rate, bit_width, block_align, ch_mask, source_format, read_format,
\* data_start, data_size, samples, file_size and seekable as they were; the
\* two position queries change neither the structure nor the stream.
C21_MetadataFrozen ==
    [][pc = "ready" =>
         /\ Metadata(wf') = Metadata(wf)
         /\ last'.op \in {"position", "position_ms"} => wf' = wf /\ fp' = fp]_vars

\* a read has returned frames and moved the tracked position and the stream
C21_Witness ==
    /\ pc = "ready"
    /\ last.op = "read"
    /\ last.ret > 0
    /\ wf.filepos = add64(wf.data_start, u64(last.ret * wf.block_align))
    /\ fp.cur = wf.filepos

\* C22: the tracked position is the real offset of the stream: once
\* wavfile_init has started, and after every read and every seek, filepos
\* equals the number of bytes taken from the input (the cursor of the
\* stream), also when a header read, an emulated forward seek or a read of
\* frames has run into the end of the input.
C22_TrackedIsReal == pc # "new" => wf.filepos = fp.cur

\* the bytes between data_start and the tracked position make whole frames
FrameAligned(w) ==
    LET off == sub64(w.filepos, w.data_start)
    IN  mul64(div64(off, w.block_align), w.block_align) = off

\* C23: once wavfile_init has returned 0, after every sequence of seeks and
\* reads the tracked position is on a frame boundary: filepos - data_start
\* is a multiple of block_align, also when data_size is not one.
C23_FrameAligned == (pc = "ready" /\ wf.block_align > 0) => FrameAligned(wf)

\* C24: wavfile_init never divides by a block_align of zero: the division
\* of the data chunk is never undefined, and when wavfile_init has returned
\* 0 block_align is at least 1, for every format tag; for PCM and IEEE
\* float it is channels * ceil(bit_width / 8).
C24_NoZeroDivisor ==
    /\ pc # "crashed"
    /\ pc = "ready" =>
          /\ wf.block_align >= 1
          /\ wf.format \in {WAVE_FORMAT_PCM, WAVE_FORMAT_IEEEFLOAT} =>
                wf.block_align = wf.channels * ((wf.bit_width + 7) \div 8)

\* C25: when wavfile_read_samples returns a count nr > 0 it has stored
\* exactly nr * channels converted samples in the caller's buffer, for every
\* value of read_format (the one wavfile_init leaves included) and every
\* number of bytes per sample.
C25_OutputWritten ==
    (pc = "ready" /\ last.op = "read" /\ last.ret > 0) =>
        Len(output) = last.ret * wf.channels

====
